---- MODULE Spec2Model ----
(***************************************************************************)
(* Topology compiler of src/john-m5.go: ParseYAML's pipeline               *)
(* (expandBlueprints, discoverCoLocationGroups,                            *)
(* inferAndValidateShardCounts, buildConcreteNodes, linkDependencies,      *)
(* detectCycle) and the traversals GetStartupOrder / GetShutdownOrder.     *)
(*                                                                         *)
(* Strings are sequences of byte values, so that concatenation             *)
(* (fmt.Sprintf) and the byte-wise order of Go's `<` and sort.Strings are  *)
(* computed rather than assumed.  Go maps are functions; a `range` over a  *)
(* map visits its keys in an order chosen nondeterministically.            *)
(***************************************************************************)
EXTENDS Integers, Sequences, FiniteSets, TLC

\* ------------------------------------------------------------------------
\* Bounds of the checked input families
\* ------------------------------------------------------------------------
MaxRel == 3
MaxLink == 2
MaxDecl == 2
MaxShard == 3
MaxHost == 2
MaxView == 2

\* ------------------------------------------------------------------------
\* Strings
\* ------------------------------------------------------------------------
Range(s) == {s[k] : k \in DOMAIN s}

\* Go's `<` on strings: byte-wise lexicographic order.
RECURSIVE StrLess(_, _)
StrLess(s, t) ==
  IF s = <<>> THEN t # <<>>
  ELSE IF t = <<>> THEN FALSE
  ELSE IF Head(s) # Head(t) THEN Head(s) < Head(t)
  ELSE StrLess(Tail(s), Tail(t))

\* sort.Strings over the keys of a map (keys are distinct).
RECURSIVE SortStrings(_)
SortStrings(S) ==
  IF S = {} THEN <<>>
  ELSE LET m == CHOOSE x \in S : \A y \in S : x = y \/ StrLess(x, y)
       IN <<m>> \o SortStrings(S \ {m})

\* Insertion of one string into a sorted list (duplicates kept).
RECURSIVE InsertSorted(_, _)
InsertSorted(x, s) ==
  IF s = <<>> THEN <<x>>
  ELSE IF StrLess(x, Head(s)) THEN <<x>> \o s
  ELSE <<Head(s)>> \o InsertSorted(x, Tail(s))

\* sort.Slice(node.DependsOn, by ID): the list sorted, duplicates kept.
RECURSIVE SortList(_)
SortList(s) == IF s = <<>> THEN <<>> ELSE InsertSorted(Head(s), SortList(Tail(s)))

\* Decimal digits of a natural number.
RECURSIVE Itoa(_)
Itoa(n) == IF n < 10 THEN <<48 + n>> ELSE Itoa(n \div 10) \o <<48 + (n % 10)>>

\* fmt's %02d for a non-negative argument.
Pad2(n) == IF n < 10 THEN <<48>> \o Itoa(n) ELSE Itoa(n)

Dash == <<45>>

\* fmt.Sprintf("%s-%s", x, y)
JoinDash(x, y) == x \o Dash \o y

\* "hostgroup-"
HostGroupPrefix == <<104, 111, 115, 116, 103, 114, 111, 117, 112, 45>>

getNodeID(appName, shardIndex, shardCount) ==
  IF shardCount = 1 THEN appName ELSE appName \o Dash \o Pad2(shardIndex)

\* App names used by the inputs: "a", "b", "c" and "a-00".
a == <<97>>
b == <<98>>
c == <<99>>
a00 == <<97, 45, 48, 48>>
a01 == <<97, 45, 48, 49>>

\* ------------------------------------------------------------------------
\* Maps and their iteration orders
\* ------------------------------------------------------------------------
EmptyMap == <<>>

\* The orders in which a `range` may visit the key set S.
RECURSIVE Perms(_)
Perms(S) ==
  IF S = {} THEN {<<>>}
  ELSE UNION {{<<x>> \o p : p \in Perms(S \ {x})} : x \in S}

RECURSIVE SubsetsUpTo(_, _)
SubsetsUpTo(U, k) ==
  IF k = 0 THEN {{}}
  ELSE LET P == SubsetsUpTo(U, k - 1) IN P \cup {R \cup {x} : R \in P, x \in U}

\* Every map from at most k keys of K to values of V.
MapsUpTo(K, V, k) == UNION {[D -> V] : D \in SubsetsUpTo(K, k)}

\* fmt's %d.
FmtInt(n) == IF n < 0 THEN Dash \o Itoa(0 - n) ELSE Itoa(n)

\* An error value: its kind and the strings formatted into its message.
NoErr == [kind |-> "none", args |-> <<>>]
Err(kind, args) == [kind |-> kind, args |-> args]

\* <<x>> for the first element of list that is not in S, <<>> when all are.
RECURSIVE FirstNotIn(_, _)
FirstNotIn(list, S) ==
  IF list = <<>> THEN <<>>
  ELSE IF Head(list) \notin S THEN <<Head(list)>>
  ELSE FirstNotIn(Tail(list), S)

\* ------------------------------------------------------------------------
\* Stage 2: expandBlueprints
\* ------------------------------------------------------------------------
EmptyAppDef == [DependsOn |-> <<>>, DependsOnAllOf |-> <<>>, SameHostAs |-> <<>>, Uses |-> <<>>]

\* synthesizeApp without the check that the synthesized name is new.
synthesizeAppOverwrite(st, appName, instance, blueprint, bpAppName) ==
  LET bpAppDef == blueprint.Apps[bpAppName]
      instantiatedAppName == JoinDash(appName, bpAppName)
      withKeys == DOMAIN instance.With
      missExt == FirstNotIn(bpAppDef.ExternalDependsOn, withKeys)
      missAll == FirstNotIn(bpAppDef.ExternalDependsOnAllOf, withKeys)
      missInt == FirstNotIn(bpAppDef.DependsOn, DOMAIN blueprint.Apps)
      ext == [k \in DOMAIN bpAppDef.ExternalDependsOn |-> instance.With[bpAppDef.ExternalDependsOn[k]]]
      extAll == [k \in DOMAIN bpAppDef.ExternalDependsOnAllOf |-> instance.With[bpAppDef.ExternalDependsOnAllOf[k]]]
      int == [k \in DOMAIN bpAppDef.DependsOn |-> JoinDash(appName, bpAppDef.DependsOn[k])]
      newAppDef == [DependsOn |-> ext \o int, DependsOnAllOf |-> extAll,
                    SameHostAs |-> <<appName>>, Uses |-> <<>>]
  IN IF missExt # <<>>
       THEN [st EXCEPT !.err = Err("unresolved external dependency", <<instance.Blueprint, appName, missExt[1]>>)]
     ELSE IF missAll # <<>>
       THEN [st EXCEPT !.err = Err("unresolved external dependency", <<instance.Blueprint, appName, missAll[1]>>)]
     ELSE IF missInt # <<>>
       THEN [st EXCEPT !.err = Err("undefined internal dependency", <<instance.Blueprint, bpAppName, missInt[1]>>)]
     ELSE [st EXCEPT !.apps = (instantiatedAppName :> newAppDef) @@ st.apps]

\* Body of `for bpAppName, bpAppDef := range blueprint.Apps` for one entry.
\* st is [apps, err]; the result is the state after the iteration.
synthesizeApp(st, appName, instance, blueprint, bpAppName) ==
  LET bpAppDef == blueprint.Apps[bpAppName]
      instantiatedAppName == JoinDash(appName, bpAppName)
      withKeys == DOMAIN instance.With
      missExt == FirstNotIn(bpAppDef.ExternalDependsOn, withKeys)
      missAll == FirstNotIn(bpAppDef.ExternalDependsOnAllOf, withKeys)
      missInt == FirstNotIn(bpAppDef.DependsOn, DOMAIN blueprint.Apps)
      ext == [k \in DOMAIN bpAppDef.ExternalDependsOn |-> instance.With[bpAppDef.ExternalDependsOn[k]]]
      extAll == [k \in DOMAIN bpAppDef.ExternalDependsOnAllOf |-> instance.With[bpAppDef.ExternalDependsOnAllOf[k]]]
      int == [k \in DOMAIN bpAppDef.DependsOn |-> JoinDash(appName, bpAppDef.DependsOn[k])]
      newAppDef == [DependsOn |-> ext \o int, DependsOnAllOf |-> extAll,
                    SameHostAs |-> <<appName>>, Uses |-> <<>>]
  IN IF instantiatedAppName \in DOMAIN st.apps
       THEN [st EXCEPT !.err = Err("app name conflict", <<instantiatedAppName, instance.Blueprint>>)]
     ELSE IF missExt # <<>>
       THEN [st EXCEPT !.err = Err("unresolved external dependency", <<instance.Blueprint, appName, missExt[1]>>)]
     ELSE IF missAll # <<>>
       THEN [st EXCEPT !.err = Err("unresolved external dependency", <<instance.Blueprint, appName, missAll[1]>>)]
     ELSE IF missInt # <<>>
       THEN [st EXCEPT !.err = Err("undefined internal dependency", <<instance.Blueprint, bpAppName, missInt[1]>>)]
     ELSE [st EXCEPT !.apps = (instantiatedAppName :> newAppDef) @@ st.apps]

\* synthesizeLoop that stops after the first blueprint app.
synthesizeLoopFirst(st, appName, instance, blueprint, bord) ==
  IF bord = <<>> \/ st.err.kind # "none" THEN st
  ELSE synthesizeApp(st, appName, instance, blueprint, Head(bord))

\* The range over blueprint.Apps in the order bord, stopping at the first error.
RECURSIVE synthesizeLoop(_, _, _, _, _)
synthesizeLoop(st, appName, instance, blueprint, bord) ==
  IF bord = <<>> \/ st.err.kind # "none" THEN st
  ELSE synthesizeLoop(synthesizeApp(st, appName, instance, blueprint, Head(bord)),
                      appName, instance, blueprint, Tail(bord))

\* expandInstance that ignores the instance's DependsOn flag.
expandInstanceNoFlag(st, raw, appName, instance, bordA, bordB) ==
  IF instance.Blueprint \notin DOMAIN raw.Blueprints
    THEN [st EXCEPT !.err = Err("undefined blueprint", <<appName, instance.Blueprint>>)]
  ELSE synthesizeLoop(st, appName, instance, raw.Blueprints[instance.Blueprint], bordB[instance.Blueprint])

\* Body of `for _, instance := range appDef.Uses` for one instance.  bordA and
\* bordB give, per blueprint, the orders of its two ranges over blueprint.Apps.
expandInstance(st, raw, appName, instance, bordA, bordB) ==
  IF instance.Blueprint \notin DOMAIN raw.Blueprints
    THEN [st EXCEPT !.err = Err("undefined blueprint", <<appName, instance.Blueprint>>)]
  ELSE
    LET blueprint == raw.Blueprints[instance.Blueprint]
        oa == bordA[instance.Blueprint]
        added == [k \in DOMAIN oa |-> JoinDash(appName, oa[k])]
        st1 == IF instance.DependsOn
                 THEN [st EXCEPT !.apps[appName].DependsOn = @ \o added]
                 ELSE st
    IN synthesizeLoop(st1, appName, instance, blueprint, bordB[instance.Blueprint])

RECURSIVE expandUses(_, _, _, _, _, _)
expandUses(st, raw, appName, uses, bordA, bordB) ==
  IF uses = <<>> \/ st.err.kind # "none" THEN st
  ELSE expandUses(expandInstance(st, raw, appName, Head(uses), bordA, bordB),
                  raw, appName, Tail(uses), bordA, bordB)

RECURSIVE expandApps(_, _, _, _, _)
expandApps(st, raw, ord, bordA, bordB) ==
  IF ord = <<>> \/ st.err.kind # "none" THEN st
  ELSE expandApps(expandUses(st, raw, Head(ord), raw.Apps[Head(ord)].Uses, bordA, bordB),
                  raw, Tail(ord), bordA, bordB)

\* expandBlueprints under one choice of map iteration orders: [apps, err].
expandBlueprints(raw, ord, bordA, bordB) ==
  expandApps([apps |-> raw.Apps, err |-> NoErr], raw, ord, bordA, bordB)

\* The iteration orders of the blueprints' app maps.
BlueprintOrders(raw) ==
  {f \in [DOMAIN raw.Blueprints -> UNION {Perms(DOMAIN raw.Blueprints[n].Apps) : n \in DOMAIN raw.Blueprints}] :
     \A n \in DOMAIN raw.Blueprints : f[n] \in Perms(DOMAIN raw.Blueprints[n].Apps)}

\* ------------------------------------------------------------------------
\* Stage 3: discoverCoLocationGroups
\* ------------------------------------------------------------------------
RECURSIVE findRoot(_, _)
findRoot(parent, i) == IF parent[i] = i THEN i ELSE findRoot(parent, parent[i])

\* The parent map after find(i): every name on i's path now points at the root.
RECURSIVE findCompress(_, _)
findCompress(parent, i) ==
  IF parent[i] = i THEN parent
  ELSE LET p2 == findCompress(parent, parent[i])
       IN [p2 EXCEPT ![i] = p2[parent[i]]]

\* union that always hangs j's root under i's root.
unionNoOrder(parent, i, j) ==
  LET p1 == findCompress(parent, i)
      rootI == findRoot(parent, i)
      p2 == findCompress(p1, j)
      rootJ == findRoot(p1, j)
  IN IF rootI # rootJ THEN [p2 EXCEPT ![rootJ] = rootI] ELSE p2

union(parent, i, j) ==
  LET p1 == findCompress(parent, i)
      rootI == findRoot(parent, i)
      p2 == findCompress(p1, j)
      rootJ == findRoot(p1, j)
  IN IF rootI # rootJ
       THEN IF StrLess(rootI, rootJ) THEN [p2 EXCEPT ![rootJ] = rootI]
            ELSE [p2 EXCEPT ![rootI] = rootJ]
       ELSE p2

\* The loop over one app's SameHostAs list; st is [parent, err].
RECURSIVE unionTargets(_, _, _, _)
unionTargets(st, apps, appName, targets) ==
  IF targets = <<>> \/ st.err.kind # "none" THEN st
  ELSE LET targetName == Head(targets)
       IN IF targetName \notin DOMAIN apps
            THEN [st EXCEPT !.err = Err("same_host_as target does not exist", <<targetName, appName>>)]
          ELSE unionTargets([st EXCEPT !.parent = union(st.parent, appName, targetName)],
                            apps, appName, Tail(targets))

RECURSIVE unionApps(_, _, _)
unionApps(st, apps, appNames) ==
  IF appNames = <<>> \/ st.err.kind # "none" THEN st
  ELSE unionApps(unionTargets(st, apps, Head(appNames), apps[Head(appNames)].SameHostAs),
                 apps, Tail(appNames))

\* [groups, err]: groups maps each root to the sorted list of its members.
discoverCoLocationGroups(raw) ==
  LET appNames == SortStrings(DOMAIN raw.Apps)
      parent0 == [n \in DOMAIN raw.Apps |-> n]
      st == unionApps([parent |-> parent0, err |-> NoErr], raw.Apps, appNames)
      roots == {findRoot(st.parent, n) : n \in DOMAIN raw.Apps}
  IN IF st.err.kind # "none" THEN [groups |-> EmptyMap, err |-> st.err]
     ELSE [groups |-> [r \in roots |-> SortStrings({n \in DOMAIN raw.Apps : findRoot(st.parent, n) = r})],
           err |-> NoErr]

\* ------------------------------------------------------------------------
\* Stage 4: inferAndValidateShardCounts
\* ------------------------------------------------------------------------
\* The loop over one group's members; st is [count, err], count starts at -1.
RECURSIVE groupShardCount(_, _, _, _)
groupShardCount(st, shards, root, members) ==
  IF members = <<>> \/ st.err.kind # "none" THEN st
  ELSE LET member == Head(members)
       IN IF member \in DOMAIN shards
            THEN LET count == shards[member]
                 IN IF st.count # -1 /\ st.count # count
                      THEN [st EXCEPT !.err = Err("conflicting shard counts",
                                                  <<root, FmtInt(st.count), FmtInt(count), member>>)]
                    ELSE groupShardCount([st EXCEPT !.count = count], shards, root, Tail(members))
          ELSE groupShardCount(st, shards, root, Tail(members))

\* The range over coLocationGroups in the order gord; st is [counts, err].
RECURSIVE inferGroups(_, _, _, _)
inferGroups(st, shards, groups, gord) ==
  IF gord = <<>> \/ st.err.kind # "none" THEN st
  ELSE LET root == Head(gord)
           members == groups[root]
           g == groupShardCount([count |-> -1, err |-> NoErr], shards, root, members)
           n == IF g.count = -1 THEN 1 ELSE g.count
       IN IF g.err.kind # "none" THEN [st EXCEPT !.err = g.err]
          ELSE inferGroups([st EXCEPT !.counts = [m \in Range(members) |-> n] @@ @],
                           shards, groups, Tail(gord))

\* [counts, err] under the iteration orders sord (of Shards) and gord (of groups).
inferAndValidateShardCounts(raw, groups, sord, gord) ==
  LET missing == FirstNotIn(sord, DOMAIN raw.Apps)
  IN IF missing # <<>>
       THEN [counts |-> EmptyMap, err |-> Err("shard count for non-existent app", <<missing[1]>>)]
     ELSE inferGroups([counts |-> EmptyMap, err |-> NoErr], raw.Shards, groups, gord)

\* ------------------------------------------------------------------------
\* Stage 5: buildConcreteNodes
\* ------------------------------------------------------------------------
\* m[k], or Go's zero value when the key is absent.
MapGet(m, k, zero) == IF k \in DOMAIN m THEN m[k] ELSE zero

\* The nodes one app contributes: one per shard index in [0, shardCount).
appNodes(appName, groups, counts) ==
  LET shardCount == MapGet(counts, appName, 0)
      groupRoot == CHOOSE r \in DOMAIN groups : appName \in Range(groups[r])
      idx == {i \in 0..(shardCount - 1) : TRUE}
      hostGroupID(i) == IF Len(groups[groupRoot]) > 1
                          THEN getNodeID(HostGroupPrefix \o groupRoot, i, shardCount)
                          ELSE <<>>
  IN [id \in {getNodeID(appName, i, shardCount) : i \in idx} |->
        LET i == CHOOSE j \in idx : getNodeID(appName, j, shardCount) = id
        IN [ID |-> id, BaseApp |-> appName, Shard |-> i,
            HostGroupID |-> hostGroupID(i), DependsOn |-> <<>>]]

\* The range over rawTopology.Apps in the order ord: a later app's node
\* replaces an earlier node stored under the same ID.
RECURSIVE buildNodes(_, _, _, _)
buildNodes(nodes, ord, groups, counts) ==
  IF ord = <<>> THEN nodes
  ELSE buildNodes(appNodes(Head(ord), groups, counts) @@ nodes, Tail(ord), groups, counts)

buildConcreteNodes(raw, groups, counts, ord) == buildNodes(EmptyMap, ord, groups, counts)

\* ------------------------------------------------------------------------
\* Stage 6: linkDependencies
\* ------------------------------------------------------------------------
\* graph.Nodes[id] of a missing key is a nil pointer.
NilNode == <<0>>
nodeRef(nodes, id) == IF id \in DOMAIN nodes THEN id ELSE NilNode

\* linkPairwise rejecting only a dependency that has more shards than the
\* dependent.
RECURSIVE linkPairwiseLoose(_, _, _, _, _, _)
linkPairwiseLoose(st, nodes, raw, counts, appName, px) ==
  LET i == px[1]
      list == px[2]
  IN IF list = <<>> \/ st.err.kind # "none" THEN st
     ELSE LET depName == Head(list)
              appShardCount == MapGet(counts, appName, 0)
              depShardCount == MapGet(counts, depName, 0)
              depShardIndex == IF depShardCount = 1 THEN 0 ELSE i
          IN IF depName \notin DOMAIN raw.Apps
               THEN [st EXCEPT !.err = Err("depends_on target does not exist", <<depName, appName>>)]
             ELSE IF depShardCount # 1 /\ depShardCount > appShardCount
               THEN [st EXCEPT !.err = Err("ambiguous depends_on",
                        <<appName, FmtInt(appShardCount), depName, FmtInt(depShardCount)>>)]
             ELSE linkPairwiseLoose(
                    [st EXCEPT !.deps = Append(@, nodeRef(nodes, getNodeID(depName, depShardIndex, depShardCount)))],
                    nodes, raw, counts, appName, <<i, Tail(list)>>)

\* The loop over appDef.DependsOn for shard i; st is [deps, err].
RECURSIVE linkPairwise(_, _, _, _, _, _)
linkPairwise(st, nodes, raw, counts, appName, px) ==
  LET i == px[1]
      list == px[2]
  IN IF list = <<>> \/ st.err.kind # "none" THEN st
     ELSE LET depName == Head(list)
              appShardCount == MapGet(counts, appName, 0)
              depShardCount == MapGet(counts, depName, 0)
              depShardIndex == IF depShardCount = 1 THEN 0 ELSE i
          IN IF depName \notin DOMAIN raw.Apps
               THEN [st EXCEPT !.err = Err("depends_on target does not exist", <<depName, appName>>)]
             ELSE IF depShardCount # 1 /\ depShardCount # appShardCount
               THEN [st EXCEPT !.err = Err("ambiguous depends_on",
                        <<appName, FmtInt(appShardCount), depName, FmtInt(depShardCount)>>)]
             ELSE linkPairwise(
                    [st EXCEPT !.deps = Append(@, nodeRef(nodes, getNodeID(depName, depShardIndex, depShardCount)))],
                    nodes, raw, counts, appName, <<i, Tail(list)>>)

\* linkFanIn whose inner loop stops one shard early (j < depShardCount-1).
RECURSIVE linkFanInShort(_, _, _, _, _, _)
linkFanInShort(st, nodes, raw, counts, appName, list) ==
  IF list = <<>> \/ st.err.kind # "none" THEN st
  ELSE LET depName == Head(list)
           depShardCount == MapGet(counts, depName, 0)
           all == [k \in 1..(IF depShardCount > 1 THEN depShardCount - 1 ELSE 0) |->
                     nodeRef(nodes, getNodeID(depName, k - 1, depShardCount))]
       IN IF depName \notin DOMAIN raw.Apps
            THEN [st EXCEPT !.err = Err("depends_on_all_of target does not exist", <<depName, appName>>)]
          ELSE linkFanInShort([st EXCEPT !.deps = @ \o all], nodes, raw, counts, appName, Tail(list))

\* The loop over appDef.DependsOnAllOf; st is [deps, err].
RECURSIVE linkFanIn(_, _, _, _, _, _)
linkFanIn(st, nodes, raw, counts, appName, list) ==
  IF list = <<>> \/ st.err.kind # "none" THEN st
  ELSE LET depName == Head(list)
           depShardCount == MapGet(counts, depName, 0)
           all == [k \in 1..(IF depShardCount > 0 THEN depShardCount ELSE 0) |->
                     nodeRef(nodes, getNodeID(depName, k - 1, depShardCount))]
       IN IF depName \notin DOMAIN raw.Apps
            THEN [st EXCEPT !.err = Err("depends_on_all_of target does not exist", <<depName, appName>>)]
          ELSE linkFanIn([st EXCEPT !.deps = @ \o all], nodes, raw, counts, appName, Tail(list))

\* The loop over the shard indices i..appShardCount-1 of one app; st is [nodes, err].
RECURSIVE linkShards(_, _, _, _, _)
linkShards(st, raw, counts, appName, i) ==
  LET appShardCount == MapGet(counts, appName, 0)
  IN IF i >= appShardCount \/ st.err.kind # "none" THEN st
     ELSE LET nodeID == getNodeID(appName, i, appShardCount)
              appDef == raw.Apps[appName]
              p == linkPairwise([deps |-> st.nodes[nodeID].DependsOn, err |-> NoErr],
                                st.nodes, raw, counts, appName, <<i, appDef.DependsOn>>)
              f == linkFanIn(p, st.nodes, raw, counts, appName, appDef.DependsOnAllOf)
          IN IF f.err.kind # "none" THEN [st EXCEPT !.err = f.err]
             ELSE linkShards([st EXCEPT !.nodes[nodeID].DependsOn = f.deps],
                             raw, counts, appName, i + 1)

RECURSIVE linkApps(_, _, _, _)
linkApps(st, raw, counts, ord) ==
  IF ord = <<>> \/ st.err.kind # "none" THEN st
  ELSE linkApps(linkShards(st, raw, counts, Head(ord), 0), raw, counts, Tail(ord))

\* [nodes, err] under the iteration order ord of rawTopology.Apps.
linkDependencies(nodes, raw, counts, ord) ==
  linkApps([nodes |-> nodes, err |-> NoErr], raw, counts, ord)

\* ------------------------------------------------------------------------
\* Stage 7: detectCycle
\* ------------------------------------------------------------------------
\* dfsVisit and the loop over its (sorted) dependency list.  The result is
\* [path, hasCycle, visiting, visited]; visiting and visited are the sets of
\* IDs whose marker is true.
RECURSIVE dfsVisit(_, _, _, _)
RECURSIVE dfsDeps(_, _, _, _, _)
dfsVisit(nodes, id, visiting, visited) ==
  dfsDeps(nodes, id, SortList(nodes[id].DependsOn), visiting \cup {id}, visited)

dfsDeps(nodes, id, deps, visiting, visited) ==
  IF deps = <<>>
    THEN [path |-> <<>>, hasCycle |-> FALSE,
          visiting |-> visiting \ {id}, visited |-> visited \cup {id}]
  ELSE LET dep == Head(deps)
       IN IF dep \in visiting
            THEN [path |-> <<dep, id>>, hasCycle |-> TRUE,
                  visiting |-> visiting, visited |-> visited]
          ELSE IF dep \notin visited
            THEN LET r == dfsVisit(nodes, dep, visiting, visited)
                 IN IF r.hasCycle
                      THEN [r EXCEPT !.path = IF r.path[1] = id THEN r.path ELSE <<id>> \o r.path]
                    ELSE dfsDeps(nodes, id, Tail(deps), r.visiting, r.visited)
          ELSE dfsDeps(nodes, id, Tail(deps), visiting, visited)

\* for i, j := 0, len-1; i < j; i, j = i+1, j-1 { swap } on a 1-based sequence.
RECURSIVE reverseInPlace(_, _, _)
reverseInPlace(s, i, j) ==
  IF i < j THEN reverseInPlace([s EXCEPT ![i] = s[j], ![j] = s[i]], i + 1, j - 1)
  ELSE s

\* detectFrom searching from the first key only.
detectFromFirstOnly(nodes, nodeKeys, st) ==
  IF nodeKeys = <<>> THEN [path |-> <<>>, hasCycle |-> FALSE]
  ELSE LET r == dfsVisit(nodes, Head(nodeKeys), st.visiting, st.visited)
       IN IF r.hasCycle
            THEN [path |-> reverseInPlace(r.path, 1, Len(r.path)), hasCycle |-> TRUE]
          ELSE [path |-> <<>>, hasCycle |-> FALSE]

\* The loop over the sorted node keys; st is [visiting, visited].
RECURSIVE detectFrom(_, _, _)
detectFrom(nodes, nodeKeys, st) ==
  IF nodeKeys = <<>> THEN [path |-> <<>>, hasCycle |-> FALSE]
  ELSE IF Head(nodeKeys) \notin st.visited
    THEN LET r == dfsVisit(nodes, Head(nodeKeys), st.visiting, st.visited)
         IN IF r.hasCycle
              THEN [path |-> reverseInPlace(r.path, 1, Len(r.path)), hasCycle |-> TRUE]
            ELSE detectFrom(nodes, Tail(nodeKeys), [visiting |-> r.visiting, visited |-> r.visited])
  ELSE detectFrom(nodes, Tail(nodeKeys), st)

\* [path, hasCycle]
detectCycle(nodes) ==
  detectFrom(nodes, SortStrings(DOMAIN nodes), [visiting |-> {}, visited |-> {}])

\* dfsVisit sorts node.DependsOn in place; a search that finds no cycle has
\* visited, and so sorted, every node.
sortedDeps(nodes) == [id \in DOMAIN nodes |-> [nodes[id] EXCEPT !.DependsOn = SortList(@)]]

\* strings.Join(path, " -> ")
Arrow == <<32, 45, 62, 32>>
RECURSIVE JoinArrow(_)
JoinArrow(path) ==
  IF path = <<>> THEN <<>>
  ELSE IF Len(path) = 1 THEN path[1]
  ELSE path[1] \o Arrow \o JoinArrow(Tail(path))

\* ------------------------------------------------------------------------
\* Traversals: GetStartupOrder, GetShutdownOrder
\* ------------------------------------------------------------------------
\* CountIn that counts a repeated entry once.
CountInOnce(list, S) == Cardinality(Range(list) \cap S)

\* Number of entries of list equal to some member of S.
RECURSIVE CountIn(_, _)
CountIn(list, S) ==
  IF list = <<>> THEN 0
  ELSE (IF Head(list) \in S THEN 1 ELSE 0) + CountIn(Tail(list), S)

\* peelLayers releasing a node as soon as one of its dependencies is peeled.
RECURSIVE peelLayersAnyDep(_, _, _, _)
peelLayersAnyDep(nodes, inDegree, queue, order) ==
  IF queue = {} THEN order
  ELSE LET layer == SortStrings(queue)
           dec(n) == CountIn(nodes[n].DependsOn, queue)
           inDegree2 == [n \in DOMAIN inDegree |-> IF dec(n) > 0 THEN 0 ELSE inDegree[n]]
           nextQueue == {n \in DOMAIN inDegree : dec(n) > 0 /\ inDegree[n] >= 1}
       IN peelLayersAnyDep(nodes, inDegree2, nextQueue, Append(order, layer))

\* One peel: the sorted queue becomes a layer, and every node that has the
\* peeled nodes in its DependsOn list (once per occurrence, through
\* reverseDeps) is decremented; a node enters nextQueue when a decrement
\* brings its in-degree to exactly 0.
RECURSIVE peelLayers(_, _, _, _)
peelLayers(nodes, inDegree, queue, order) ==
  IF queue = {} THEN order
  ELSE LET layer == SortStrings(queue)
           dec(n) == CountIn(nodes[n].DependsOn, queue)
           inDegree2 == [n \in DOMAIN inDegree |-> inDegree[n] - dec(n)]
           nextQueue == {n \in DOMAIN inDegree :
                           dec(n) > 0 /\ inDegree[n] >= 1 /\ inDegree2[n] <= 0}
       IN peelLayers(nodes, inDegree2, nextQueue, Append(order, layer))

\* GetStartupOrder that also seeds the queue with nodes of in-degree 1.
GetStartupOrderEarly(nodes) ==
  LET ids == {nodes[k].ID : k \in DOMAIN nodes}
      inDegree == [id \in ids |-> Len(nodes[id].DependsOn)]
      queue == {id \in ids : inDegree[id] <= 1}
  IN peelLayers(nodes, inDegree, queue, <<>>)

\* Layers of node IDs, first layer first.
GetStartupOrder(nodes) ==
  LET ids == {nodes[k].ID : k \in DOMAIN nodes}
      inDegree == [id \in ids |-> Len(nodes[id].DependsOn)]
      queue == {id \in ids : inDegree[id] = 0}
  IN peelLayers(nodes, inDegree, queue, <<>>)

\* GetShutdownOrder whose swap loop stops one layer short of the end.
GetShutdownOrderShort(nodes) ==
  LET startup == GetStartupOrder(nodes)
  IN reverseInPlace(startup, 1, Len(startup) - 1)

GetShutdownOrder(nodes) ==
  LET startup == GetStartupOrder(nodes)
  IN reverseInPlace(startup, 1, Len(startup))

\* ------------------------------------------------------------------------
\* Traversals: GetSubgraphFor
\* ------------------------------------------------------------------------
\* collectDeps that stores the node and does not visit its dependencies.
collectDepsShallow(nodes, id, sub) ==
  IF id \in DOMAIN sub THEN sub ELSE (id :> nodes[id]) @@ sub

\* collectDeps and its loop over node.DependsOn; sub is subgraph.Nodes.
RECURSIVE collectDeps(_, _, _)
RECURSIVE collectList(_, _, _)
collectDeps(nodes, id, sub) ==
  IF id \in DOMAIN sub THEN sub
  ELSE collectList(nodes, nodes[id].DependsOn, (id :> nodes[id]) @@ sub)

collectList(nodes, deps, sub) ==
  IF deps = <<>> THEN sub
  ELSE collectList(nodes, Tail(deps), collectDeps(nodes, Head(deps), sub))

\* initialNodes that ignores the host group.
initialNodesTargetOnly(nodes, targetNodeID) == {targetNodeID}

\* initialNodes: every node sharing the target's non-empty HostGroupID, or
\* the target alone.
initialNodes(nodes, targetNodeID) ==
  IF nodes[targetNodeID].HostGroupID # <<>>
    THEN {n \in DOMAIN nodes : nodes[n].HostGroupID = nodes[targetNodeID].HostGroupID}
    ELSE {targetNodeID}

\* GetSubgraphFor that stores copies of the nodes without their host group.
GetSubgraphForCopy(nodes, targetNodeID) ==
  IF targetNodeID \notin DOMAIN nodes
    THEN [nodes |-> EmptyMap, err |-> Err("node not found in the graph", <<targetNodeID>>)]
  ELSE LET sub == collectList(nodes, SortStrings(initialNodes(nodes, targetNodeID)), EmptyMap)
       IN [nodes |-> [n \in DOMAIN sub |-> [sub[n] EXCEPT !.HostGroupID = <<>>]],
           err |-> NoErr]

\* [nodes, err].  The subgraph is a map, so the order in which the initial
\* nodes are collected does not show in it; they are taken in sorted order.
GetSubgraphFor(nodes, targetNodeID) ==
  IF targetNodeID \notin DOMAIN nodes
    THEN [nodes |-> EmptyMap, err |-> Err("node not found in the graph", <<targetNodeID>>)]
  ELSE [nodes |-> collectList(nodes, SortStrings(initialNodes(nodes, targetNodeID)), EmptyMap),
        err |-> NoErr]

\* ------------------------------------------------------------------------
\* LogicalGraph
\* ------------------------------------------------------------------------
\* logicalAppend without the search for an existing entry.
RECURSIVE logicalAppendAlways(_, _, _, _)
logicalAppendAlways(nodes, appName, deps, list) ==
  IF list = <<>> THEN deps
  ELSE LET target == nodes[Head(list)].BaseApp
       IN logicalAppendAlways(nodes, appName,
                              IF appName # target THEN Append(deps, target) ELSE deps,
                              Tail(list))

\* The inner loop over node.DependsOn: deps is the logical node's list so far.
RECURSIVE logicalAppend(_, _, _, _)
logicalAppend(nodes, appName, deps, list) ==
  IF list = <<>> THEN deps
  ELSE LET target == nodes[Head(list)].BaseApp
       IN logicalAppend(nodes, appName,
                        IF target \notin Range(deps) /\ appName # target THEN Append(deps, target) ELSE deps,
                        Tail(list))

\* The dependency list of the logical node appName when the nodes of that
\* base app are visited in the order ord.
RECURSIVE logicalDeps(_, _, _, _)
logicalDeps(nodes, appName, deps, ord) ==
  IF ord = <<>> THEN deps
  ELSE logicalDeps(nodes, appName, logicalAppend(nodes, appName, deps, nodes[Head(ord)].DependsOn), Tail(ord))

baseApps(nodes) == {nodes[n].BaseApp : n \in DOMAIN nodes}

\* A logical node's list grows only while nodes of its own base app are
\* visited, so the range over g.Nodes shows in the result only through the
\* relative order of the nodes of each base app that have dependencies: the
\* lists it can produce for appName.
logicalLists(nodes, appName) ==
  {logicalDeps(nodes, appName, <<>>, ord) :
     ord \in Perms({n \in DOMAIN nodes : nodes[n].BaseApp = appName /\ nodes[n].DependsOn # <<>>})}

\* The logical graph in which the node of each base app has the list lists[app].
LogicalGraph(nodes, lists) ==
  [appName \in baseApps(nodes) |->
     [ID |-> appName, BaseApp |-> appName, Shard |-> 0, HostGroupID |-> <<>>,
      DependsOn |-> lists[appName]]]

\* ------------------------------------------------------------------------
\* Graph.DOT
\* ------------------------------------------------------------------------
\* The literal pieces of the output, as bytes.
DotHeader ==
  <<100, 105, 103, 114, 97, 112, 104, 32, 71, 32, 123, 10>>
  \o <<32, 32, 99, 111, 109, 112, 111, 117, 110, 100, 61, 116, 114, 117, 101, 59, 10>>
  \o <<32, 32, 114, 97, 110, 107, 100, 105, 114, 61, 84, 66, 59, 10>>
  \o <<32, 32, 110, 111, 100, 101, 32, 91, 115, 104, 97, 112, 101, 61, 98, 111, 120, 44, 32, 115, 116, 121, 108, 101, 61, 114, 111, 117, 110, 100, 101, 100, 93, 59, 10, 10>>
Newline == <<10>>
DotNodeOpen == <<32, 32, 34>>
DotNodeClose == <<34, 59, 10>>
DotClusterOpen == <<32, 32, 115, 117, 98, 103, 114, 97, 112, 104, 32, 34, 99, 108, 117, 115, 116, 101, 114, 95>>
DotClusterOpenEnd == <<34, 32, 123, 10>>
DotLabelOpen == <<32, 32, 32, 32, 108, 97, 98, 101, 108, 32, 61, 32, 34>>
DotClusterStyle == <<32, 32, 32, 32, 115, 116, 121, 108, 101, 32, 61, 32, 102, 105, 108, 108, 101, 100, 59, 10>>
  \o <<32, 32, 32, 32, 99, 111, 108, 111, 114, 32, 61, 32, 108, 105, 103, 104, 116, 103, 114, 101, 121, 59, 10>>
DotMemberOpen == <<32, 32, 32, 32, 34>>
DotClusterClose == <<32, 32, 125, 10>>
DotArrow == <<34, 32, 45, 62, 32, 34>>
DotFooter == <<125, 10>>

\* The lines written by the first loop over nodeKeys: a node outside every
\* shown host group is declared on a line of its own.
RECURSIVE dotNodeLines(_, _, _)
dotNodeLines(nodes, nodeKeys, ShowCoLocation) ==
  IF nodeKeys = <<>> THEN <<>>
  ELSE LET node == nodes[Head(nodeKeys)]
       IN (IF ShowCoLocation /\ node.HostGroupID # <<>> THEN <<>>
           ELSE DotNodeOpen \o node.ID \o DotNodeClose)
          \o dotNodeLines(nodes, Tail(nodeKeys), ShowCoLocation)

\* hostGroups[groupID]: the grouped nodes in nodeKeys order.
dotGroupMembers(nodes, nodeKeys, groupID) ==
  SelectSeq(nodeKeys, LAMBDA k : nodes[k].HostGroupID = groupID)

RECURSIVE dotMemberLines(_, _)
dotMemberLines(nodes, members) ==
  IF members = <<>> THEN <<>>
  ELSE DotMemberOpen \o nodes[Head(members)].ID \o DotNodeClose \o dotMemberLines(nodes, Tail(members))

RECURSIVE dotClusters(_, _, _)
dotClusters(nodes, nodeKeys, clusterKeys) ==
  IF clusterKeys = <<>> THEN <<>>
  ELSE LET groupID == Head(clusterKeys)
       IN DotClusterOpen \o groupID \o DotClusterOpenEnd
          \o DotLabelOpen \o groupID \o DotNodeClose
          \o DotClusterStyle
          \o dotMemberLines(nodes, dotGroupMembers(nodes, nodeKeys, groupID))
          \o DotClusterClose
          \o dotClusters(nodes, nodeKeys, Tail(clusterKeys))

RECURSIVE dotDepLines(_, _)
dotDepLines(node, deps) ==
  IF deps = <<>> THEN <<>>
  ELSE DotNodeOpen \o node.ID \o DotArrow \o Head(deps) \o DotNodeClose \o dotDepLines(node, Tail(deps))

RECURSIVE dotEdgeLines(_, _)
dotEdgeLines(nodes, nodeKeys) ==
  IF nodeKeys = <<>> THEN <<>>
  ELSE dotDepLines(nodes[Head(nodeKeys)], nodes[Head(nodeKeys)].DependsOn)
       \o dotEdgeLines(nodes, Tail(nodeKeys))

\* The text returned by Graph.DOT, as bytes.
DOT(nodes, ShowCoLocation) ==
  LET nodeKeys == SortStrings(DOMAIN nodes)
      clusterKeys == IF ShowCoLocation
                       THEN SortStrings({nodes[k].HostGroupID : k \in DOMAIN nodes} \ {<<>>})
                       ELSE <<>>
  IN DotHeader
     \o dotNodeLines(nodes, nodeKeys, ShowCoLocation)
     \o dotClusters(nodes, nodeKeys, clusterKeys)
     \o Newline
     \o dotEdgeLines(nodes, nodeKeys)
     \o DotFooter

\* ------------------------------------------------------------------------
\* Input documents
\* ------------------------------------------------------------------------
\* A relation entry <<app, field, target>> puts target into the named list
\* field of app; the lists of a document are written in sorted order.
field(rels, n, f) == SortStrings({r[3] : r \in {q \in rels : q[1] = n /\ q[2] = f}})

Topology(appNames, rels, shards) ==
  [Shards |-> shards,
   Blueprints |-> EmptyMap,
   Apps |-> [n \in appNames |->
               [DependsOn |-> field(rels, n, "depends_on"),
                DependsOnAllOf |-> field(rels, n, "depends_on_all_of"),
                SameHostAs |-> field(rels, n, "same_host_as"),
                Uses |-> <<>>]]]

\* Apps a, b, c with up to MaxRel pairwise dependency entries among them and
\* up to MaxDecl declared shard counts, each 2 or MaxShard.
DepInputs ==
  {Topology({a, b, c}, rels, shards) :
     rels \in SubsetsUpTo({a, b, c} \X {"depends_on"} \X {a, b, c}, MaxRel),
     shards \in MapsUpTo({a, b, c}, {2, MaxShard}, MaxDecl)}

\* Apps a, b, c with up to MaxLink pairwise or fan-in dependency entries;
\* a and b may declare a shard count of 2 or MaxShard, c is a singleton.
LinkInputs ==
  {Topology({a, b, c}, rels, shards) :
     rels \in SubsetsUpTo({a, b, c} \X {"depends_on", "depends_on_all_of"} \X {a, b, c}, MaxLink),
     shards \in MapsUpTo({a, b}, {2, MaxShard}, MaxDecl)}

\* Apps a, b, c with up to MaxHost co-location entries and up to MaxDecl
\* declared shard counts; any integer in -1..MaxShard can be declared.
HostInputs ==
  {Topology({a, b, c}, rels, shards) :
     rels \in SubsetsUpTo({a, b, c} \X {"same_host_as"} \X {a, b, c}, MaxHost),
     shards \in MapsUpTo({a, b, c}, (-1)..MaxShard, MaxDecl)}

\* Apps "a", "a-00" and "b": the name of one app is a shard ID of another.
NameInputs ==
  {Topology({a, a00, b}, rels, shards) :
     rels \in SubsetsUpTo({a, a00, b} \X {"depends_on", "depends_on_all_of"} \X {a, a00, b}, MaxLink),
     shards \in MapsUpTo({a, a00, b}, 2..MaxShard, MaxDecl)}

\* The same three names with co-location relations.
HostNameInputs ==
  {Topology({a, a00, b}, rels, shards) :
     rels \in SubsetsUpTo({a, a00, b} \X {"same_host_as"} \X {a, a00, b}, MaxHost),
     shards \in MapsUpTo({a, a00, b}, 2..MaxShard, MaxDecl)}

\* Apps a, b, c with up to MaxView pairwise dependency and co-location
\* entries among them; app a may declare two shards.
ViewInputs ==
  {Topology({a, b, c}, rels, shards) :
     rels \in SubsetsUpTo({a, b, c} \X {"depends_on", "same_host_as"} \X {a, b, c}, MaxView),
     shards \in MapsUpTo({a}, {2}, 1)}

b005 == <<98, 45, 48, 48, 53>>

\* Apps "a", "b" and "b-005" with up to MaxRel pairwise dependency entries;
\* a and b may declare shard counts.  No node ID is the ID of another node.
OrderInputs ==
  {Topology({a, b, b005}, rels, shards) :
     rels \in SubsetsUpTo({a, b, b005} \X {"depends_on"} \X {a, b, b005}, MaxRel),
     shards \in MapsUpTo({a, b}, 2..MaxShard, MaxDecl)}

\* Apps "a", "a-00", "a-01" and "c" with up to MaxLink pairwise dependency
\* entries; a may declare a shard count, so that two apps are named like
\* shards of a.
TwinInputs ==
  {Topology({a, a00, a01, c}, rels, shards) :
     rels \in SubsetsUpTo({a, a00, a01, c} \X {"depends_on"} \X {a, a00, a01, c}, MaxLink),
     shards \in MapsUpTo({a}, 2..MaxShard, 1)}

\* Two names that no document of the next family defines as apps.
appX == <<120>>
appY == <<121>>

\* Apps a and b with up to MaxLink entries of any relation, whose targets
\* may be the names in undefinedNames, and up to MaxDecl declared shard
\* counts in 0..MaxShard; app a may use a blueprint that is not defined.
RefInputs(undefinedNames) ==
  {[Topology({a, b}, rels, shards) EXCEPT !.Apps[a].Uses = uses] :
     rels \in SubsetsUpTo({a, b} \X {"depends_on", "depends_on_all_of", "same_host_as"} \X ({a, b} \cup undefinedNames), MaxLink),
     shards \in MapsUpTo({a, b}, 0..MaxShard, MaxDecl),
     uses \in {<<>>, <<[Blueprint |-> appX, DependsOn |-> FALSE, With |-> EmptyMap]>>}}

\* A blueprint name, a placeholder name and the app name "a-b".
stack == <<83>>
sender == <<115>>
ab == <<97, 45, 98>>

\* The blueprint whose apps are bpApps and whose dependency entries are rels.
BlueprintOf(bpApps, rels) ==
  [Apps |-> [n \in bpApps |->
               [DependsOn |-> field(rels, n, "depends_on"),
                ExternalDependsOn |-> field(rels, n, "external_depends_on"),
                ExternalDependsOnAllOf |-> field(rels, n, "external_depends_on_all_of")]]]

\* One blueprint "S" with app b, or apps b and c, and up to MaxLink entries:
\* internal dependencies on b or c and external dependencies on the
\* placeholder "s"; or no blueprint at all.
BlueprintEntries(bpApps) ==
  (bpApps \X {"depends_on"} \X {b, c})
    \cup (bpApps \X {"external_depends_on", "external_depends_on_all_of"} \X {sender})

BlueprintTables ==
  {EmptyMap} \cup
  UNION {{(stack :> BlueprintOf(bpApps, rels)) : rels \in SubsetsUpTo(BlueprintEntries(bpApps), MaxLink)} :
           bpApps \in {{b}, {b, c}}}

\* An instantiation of "S": the flag set or not, the placeholder bound to
\* app b or not bound.
Instances ==
  {[Blueprint |-> stack, DependsOn |-> flag, With |-> with] :
     flag \in BOOLEAN, with \in {EmptyMap, (sender :> b)}}

\* App a uses "S" up to twice and may depend on b and declare two shards;
\* app b is plain; an app named "a-b" may exist.
BlueprintInputs ==
  {[Shards |-> shards,
    Blueprints |-> blueprints,
    Apps |-> [n \in appNames |->
                [DependsOn |-> IF n = a THEN deps ELSE <<>>,
                 DependsOnAllOf |-> <<>>,
                 SameHostAs |-> <<>>,
                 Uses |-> IF n = a THEN uses ELSE <<>>]]] :
     shards \in MapsUpTo({a}, {2}, 1),
     blueprints \in BlueprintTables,
     appNames \in {{a, b}, {a, b, ab}},
     deps \in {<<>>, <<b>>},
     uses \in UNION {[1..k -> Instances] : k \in 0..2}}

appD == <<100>>

\* The entries of the list seq of <<app, target>> pairs that belong to app n,
\* in the order written.
hostList(seq, n) ==
  LET mine == SelectSeq(seq, LAMBDA e : e[1] = n)
  IN [i \in 1..Len(mine) |-> mine[i][2]]

\* Apps a, b, c, d whose same_host_as lists hold up to MaxHost entries
\* altogether, written in any order and possibly repeated.
GroupInputs ==
  {[Shards |-> EmptyMap,
    Blueprints |-> EmptyMap,
    Apps |-> [n \in {a, b, c, appD} |->
                [DependsOn |-> <<>>, DependsOnAllOf |-> <<>>,
                 SameHostAs |-> hostList(seq, n), Uses |-> <<>>]]] :
     seq \in UNION {[1..k -> {a, b, c, appD} \X {a, b, c, appD}] : k \in 0..MaxHost}}

\* ------------------------------------------------------------------------
\* State
\* ------------------------------------------------------------------------
VARIABLES
  data,              \* the decoded input document handed to ParseYAML
  rawTopology,       \* ParseYAML's rawTopology (Apps is replaced after expansion)
  coLocationGroups,  \* root -> sorted member list
  appShardCounts,    \* app -> shard count
  graph,             \* Graph.Nodes of the graph under construction: ID -> Node
  ret,               \* ParseYAML's return value: [graph: "nil" or "graph", err]
  pc,                \* position in ParseYAML
  startup,           \* result of the last GetStartupOrder(graph)
  shutdown,          \* result of the last GetShutdownOrder(graph)
  view               \* the graph last derived by GetSubgraphFor or LogicalGraph

vars == <<data, rawTopology, coLocationGroups, appShardCounts, graph, ret, pc, startup, shutdown, view>>

NoView == [op |-> "none", target |-> <<>>, nodes |-> EmptyMap, err |-> NoErr, order |-> <<>>]

Unset == [set |-> FALSE, layers |-> <<>>]

InitWith(inputs) ==
  /\ data \in inputs
  /\ rawTopology = data
  /\ coLocationGroups = EmptyMap
  /\ appShardCounts = EmptyMap
  /\ graph = EmptyMap
  /\ ret = [graph |-> "nil", err |-> NoErr]
  /\ pc = "decoded"
  /\ startup = Unset
  /\ shutdown = Unset
  /\ view = NoView

Init == InitWith(DepInputs)
InitLink == InitWith(LinkInputs)
InitHost == InitWith(HostInputs)
InitNames == InitWith(NameInputs)
InitHostNames == InitWith(HostNameInputs)
InitGroup == InitWith(GroupInputs)
InitView == InitWith(ViewInputs)
InitOrder == InitWith(OrderInputs)
InitRef == InitWith(RefInputs({appX, appY}))
InitBlueprint == InitWith(BlueprintInputs)
InitTwin == InitWith(TwinInputs)

\* `return nil, err`
\* A failing return that still hands out the graph.
FailWithGraph(e) ==
  /\ ret' = [graph |-> "graph", err |-> e]
  /\ pc' = "failed"

Fail(e) ==
  /\ ret' = [graph |-> "nil", err |-> e]
  /\ pc' = "failed"

\* ------------------------------------------------------------------------
\* ParseYAML, one action per stage
\* ------------------------------------------------------------------------
\* The range over rawTopology.Apps does nothing for an app without `uses`,
\* so an iteration order is an order of the apps that have some.
UsingApps(raw) == {n \in DOMAIN raw.Apps : raw.Apps[n].Uses # <<>>}

ExpandBlueprints ==
  /\ pc = "decoded"
  /\ \E ord \in Perms(UsingApps(rawTopology)) :
     \E bordA \in BlueprintOrders(rawTopology), bordB \in BlueprintOrders(rawTopology) :
       LET r == expandBlueprints(rawTopology, ord, bordA, bordB)
       IN IF r.err.kind # "none"
            THEN Fail(r.err) /\ UNCHANGED rawTopology
          ELSE /\ rawTopology' = [rawTopology EXCEPT !.Apps = r.apps]
               /\ pc' = "expanded"
               /\ UNCHANGED ret
  /\ UNCHANGED <<data, coLocationGroups, appShardCounts, graph, startup, shutdown, view>>

DiscoverCoLocationGroups ==
  /\ pc = "expanded"
  /\ LET r == discoverCoLocationGroups(rawTopology)
     IN IF r.err.kind # "none"
          THEN Fail(r.err) /\ UNCHANGED coLocationGroups
        ELSE /\ coLocationGroups' = r.groups
             /\ pc' = "grouped"
             /\ UNCHANGED ret
  /\ UNCHANGED <<data, rawTopology, appShardCounts, graph, startup, shutdown, view>>

\* The range over rawTopology.Shards does nothing for a key that names an
\* app, so its iteration order is an order of the other keys.
UnknownShardKeys(raw) == DOMAIN raw.Shards \ DOMAIN raw.Apps

\* A group with fewer than two declaring members cannot reach the conflict
\* branch and writes only its own members' counts, so its place in the range
\* over coLocationGroups is immaterial: an iteration order is an order of
\* the groups with two or more declaring members, followed by the rest.
DeclaringGroups(raw, groups) ==
  {r \in DOMAIN groups : Cardinality(Range(groups[r]) \cap DOMAIN raw.Shards) >= 2}

InferAndValidateShardCounts ==
  /\ pc = "grouped"
  /\ \E sord \in Perms(UnknownShardKeys(rawTopology)) :
     \E dord \in Perms(DeclaringGroups(rawTopology, coLocationGroups)) :
       LET gord == dord \o SortStrings(DOMAIN coLocationGroups \ DeclaringGroups(rawTopology, coLocationGroups))
           r == inferAndValidateShardCounts(rawTopology, coLocationGroups, sord, gord)
       IN IF r.err.kind # "none"
            THEN Fail(r.err) /\ UNCHANGED appShardCounts
          ELSE /\ appShardCounts' = r.counts
               /\ pc' = "counted"
               /\ UNCHANGED ret
  /\ UNCHANGED <<data, rawTopology, coLocationGroups, graph, startup, shutdown, view>>

BuildConcreteNodes ==
  /\ pc = "counted"
  /\ \E ord \in Perms(DOMAIN rawTopology.Apps) :
       graph' = buildConcreteNodes(rawTopology, coLocationGroups, appShardCounts, ord)
  /\ pc' = "built"
  /\ UNCHANGED <<data, rawTopology, coLocationGroups, appShardCounts, ret, startup, shutdown, view>>

\* The range over rawTopology.Apps does nothing for an app that has no
\* shard or no dependency entry, so an iteration order is an order of the
\* other apps.
LinkingApps(raw, counts) ==
  {n \in DOMAIN raw.Apps :
     /\ MapGet(counts, n, 0) > 0
     /\ raw.Apps[n].DependsOn # <<>> \/ raw.Apps[n].DependsOnAllOf # <<>>}

LinkDependencies ==
  /\ pc = "built"
  /\ \E ord \in Perms(LinkingApps(rawTopology, appShardCounts)) :
       LET r == linkDependencies(graph, rawTopology, appShardCounts, ord)
       IN IF r.err.kind # "none"
            THEN Fail(r.err) /\ UNCHANGED graph
          ELSE /\ graph' = r.nodes
               /\ pc' = "linked"
               /\ UNCHANGED ret
  /\ UNCHANGED <<data, rawTopology, coLocationGroups, appShardCounts, startup, shutdown, view>>

DetectCycle ==
  /\ pc = "linked"
  /\ LET r == detectCycle(graph)
     IN IF r.hasCycle
          THEN Fail(Err("dependency cycle detected", <<JoinArrow(r.path)>>)) /\ UNCHANGED graph
        ELSE /\ graph' = sortedDeps(graph)
             /\ ret' = [graph |-> "graph", err |-> NoErr]
             /\ pc' = "done"
  /\ UNCHANGED <<data, rawTopology, coLocationGroups, appShardCounts, startup, shutdown, view>>

\* ------------------------------------------------------------------------
\* Derivations on the returned graph
\* ------------------------------------------------------------------------
StartupOrder ==
  /\ pc = "done"
  /\ startup' = [set |-> TRUE, layers |-> GetStartupOrder(graph)]
  /\ UNCHANGED <<data, rawTopology, coLocationGroups, appShardCounts, graph, ret, pc, shutdown, view>>

ShutdownOrder ==
  /\ pc = "done"
  /\ shutdown' = [set |-> TRUE, layers |-> GetShutdownOrder(graph)]
  /\ UNCHANGED <<data, rawTopology, coLocationGroups, appShardCounts, graph, ret, pc, startup, view>>

\* A node ID that no graph contains.
MissingID == <<63>>

\* RestartPlan that takes the shutdown order of the subgraph.
RestartPlanShutdown(nodes, targetNodeID) ==
  LET r == GetSubgraphFor(nodes, targetNodeID)
  IN [nodes |-> r.nodes, err |-> r.err,
      order |-> IF r.err = NoErr THEN GetShutdownOrder(r.nodes) ELSE <<>>]

\* main's restart mode: the subgraph of the target and, unless that failed,
\* the startup order of the subgraph.
RestartPlan(nodes, targetNodeID) ==
  LET r == GetSubgraphFor(nodes, targetNodeID)
  IN [nodes |-> r.nodes, err |-> r.err,
      order |-> IF r.err = NoErr THEN GetStartupOrder(r.nodes) ELSE <<>>]

\* main's logical view in startup mode: the logical graph replaces the
\* compiled one and its startup order is taken.
LogicalStartupPlan(nodes, lists) ==
  LET logical == LogicalGraph(nodes, lists)
  IN [nodes |-> logical, err |-> NoErr, order |-> GetStartupOrder(logical)]

SubgraphFor ==
  /\ pc = "done"
  /\ \E targetNodeID \in DOMAIN graph \cup {MissingID} :
     \E r \in {RestartPlan(graph, targetNodeID)} :
       view' = [op |-> "subgraph", target |-> targetNodeID, nodes |-> r.nodes, err |-> r.err,
                order |-> r.order]
  /\ UNCHANGED <<data, rawTopology, coLocationGroups, appShardCounts, graph, ret, pc, startup, shutdown>>

LogicalView ==
  /\ pc = "done"
  /\ \E possible \in {[n \in baseApps(graph) |-> logicalLists(graph, n)]} :
     \E lists \in {f \in [DOMAIN possible -> UNION Range(possible)] :
                     \A n \in DOMAIN possible : f[n] \in possible[n]} :
     \E r \in {LogicalStartupPlan(graph, lists)} :
       view' = [op |-> "logical", target |-> <<>>, nodes |-> r.nodes, err |-> r.err,
                order |-> r.order]
  /\ UNCHANGED <<data, rawTopology, coLocationGroups, appShardCounts, graph, ret, pc, startup, shutdown>>

Next ==
  \/ ExpandBlueprints
  \/ DiscoverCoLocationGroups
  \/ InferAndValidateShardCounts
  \/ BuildConcreteNodes
  \/ LinkDependencies
  \/ DetectCycle
  \/ StartupOrder
  \/ ShutdownOrder
  \/ SubgraphFor
  \/ LogicalView

Spec == Init /\ [][Next]_vars
SpecLink == InitLink /\ [][Next]_vars
SpecHost == InitHost /\ [][Next]_vars
SpecNames == InitNames /\ [][Next]_vars
SpecHostNames == InitHostNames /\ [][Next]_vars
SpecGroup == InitGroup /\ [][Next]_vars
SpecView == InitView /\ [][Next]_vars
SpecOrder == InitOrder /\ [][Next]_vars
SpecRef == InitRef /\ [][Next]_vars
SpecBlueprint == InitBlueprint /\ [][Next]_vars
SpecTwin == InitTwin /\ [][Next]_vars

\* ------------------------------------------------------------------------
\* Properties
\* ------------------------------------------------------------------------
\* The indices of the layers that contain id.
LayerIdx(layers, id) == {i \in DOMAIN layers : id \in Range(layers[i])}

\* The nodes reachable from the set S along dependency edges (S included).
RECURSIVE Closure(_, _)
Closure(nodes, S) ==
  LET T == S \cup UNION {Range(nodes[n].DependsOn) : n \in S}
  IN IF T = S THEN S ELSE Closure(nodes, T)

\* Some node reaches itself along one or more dependency edges.
HasCycle(nodes) ==
  \E n \in DOMAIN nodes : n \in Closure(nodes, Range(nodes[n].DependsOn))

\* C1: in the startup order of a compiled graph every node lies in a layer
\* whose index is strictly greater than the layer index of each of its
\* dependencies.
C1_Layering ==
  startup.set =>
    \A n \in DOMAIN graph :
      /\ LayerIdx(startup.layers, n) # {}
      /\ \A k \in DOMAIN graph[n].DependsOn :
           LET d == graph[n].DependsOn[k]
           IN /\ LayerIdx(startup.layers, d) # {}
              /\ \A i \in LayerIdx(startup.layers, n), j \in LayerIdx(startup.layers, d) : j < i

\* A startup order of three or more layers in which some node has two
\* dependencies in different layers.
C1_Witness ==
  /\ startup.set
  /\ Len(startup.layers) >= 3
  /\ \E n \in DOMAIN graph : \E k1, k2 \in DOMAIN graph[n].DependsOn :
       LayerIdx(startup.layers, graph[n].DependsOn[k1]) # LayerIdx(startup.layers, graph[n].DependsOn[k2])

\* The document of three single-shard apps with a -> b, b -> c, c -> a.
ThreeCycle ==
  Topology({a, b, c},
           {<<a, "depends_on", b>>, <<b, "depends_on", c>>, <<c, "depends_on", a>>},
           EmptyMap)

\* C2: compiling the three-app cycle a -> b -> c -> a fails and the reported
\* path reads exactly "a -> b -> c -> a".
C2_CyclePath ==
  (data = ThreeCycle /\ pc \in {"done", "failed"}) =>
    /\ pc = "failed"
    /\ ret.err = Err("dependency cycle detected", <<a \o Arrow \o b \o Arrow \o c \o Arrow \o a>>)

\* C3: a linked graph that contains a dependency cycle is rejected with a
\* dependency-cycle error, and only an acyclic graph is returned.
C3_Acyclic ==
  [][pc = "linked" =>
       IF HasCycle(graph)
         THEN pc' = "failed" /\ ret'.graph = "nil" /\ ret'.err.kind = "dependency cycle detected"
         ELSE pc' = "done" /\ ret'.graph = "graph" /\ ~HasCycle(graph')]_vars

\* A rejected document whose only cycle is b depending on itself, reached
\* from the first node a but not containing it.
C3_Witness ==
  /\ pc = "failed"
  /\ ret.err.kind = "dependency cycle detected"
  /\ data.Apps[a].DependsOn = <<b>>
  /\ data.Apps[b].DependsOn = <<b>>
  /\ data.Apps[c].DependsOn = <<>>

\* C4: shutdown layer i is startup layer k+1-i (layers counted from 1), with
\* the node order inside each layer unchanged.
C4_ShutdownReverse ==
  (startup.set /\ shutdown.set) =>
    /\ Len(shutdown.layers) = Len(startup.layers)
    /\ \A i \in DOMAIN shutdown.layers :
         shutdown.layers[i] = startup.layers[Len(startup.layers) + 1 - i]

\* Both orders computed for a graph of three layers, one holding two nodes.
C4_Witness ==
  /\ startup.set
  /\ shutdown.set
  /\ Len(startup.layers) = 3
  /\ \E i \in DOMAIN startup.layers : Len(startup.layers[i]) >= 2

\* The IDs of the nodes of app under the shard counts.
NodeIDs(app, counts) == {getNodeID(app, i, counts[app]) : i \in 0..(counts[app] - 1)}

\* The entries of list that are members of S, in order.
Restrict(list, S) == SelectSeq(list, LAMBDA d : d \in S)

\* Some app depends pairwise on an app whose shard count is neither 1 nor
\* the dependent's own count.
AmbiguousPairwise ==
  \E X \in DOMAIN rawTopology.Apps : \E Y \in Range(rawTopology.Apps[X].DependsOn) :
    appShardCounts[Y] # 1 /\ appShardCounts[Y] # appShardCounts[X]

\* C5: linking fails with an ambiguity error when some pairwise dependency
\* joins shard counts N and M with M # N and M # 1; otherwise it succeeds and
\* for X depending pairwise on Y shard i of X is linked to exactly one node
\* of Y: shard i when M = N, the single node when M = 1.
C5_PairwiseRatio ==
  [][pc = "built" =>
       IF AmbiguousPairwise
         THEN pc' = "failed" /\ ret'.err.kind = "ambiguous depends_on"
         ELSE /\ pc' = "linked"
              /\ \A X \in DOMAIN rawTopology.Apps :
                   \A Y \in Range(rawTopology.Apps[X].DependsOn) \ Range(rawTopology.Apps[X].DependsOnAllOf) :
                     \A i \in 0..(appShardCounts[X] - 1) :
                       Restrict(graph'[getNodeID(X, i, appShardCounts[X])].DependsOn,
                                NodeIDs(Y, appShardCounts)) =
                         <<getNodeID(Y, IF appShardCounts[Y] = 1 THEN 0 ELSE i, appShardCounts[Y])>>]_vars

\* a (3 shards) linked 1:1 to b (3 shards) and N:1 to the single c.
C5_Witness ==
  /\ pc = "linked"
  /\ appShardCounts[a] = 3 /\ appShardCounts[b] = 3 /\ appShardCounts[c] = 1
  /\ rawTopology.Apps[a].DependsOn = <<b, c>>
  /\ graph[getNodeID(a, 2, 3)].DependsOn = <<getNodeID(b, 2, 3), c>>

\* The fan-in edges from the nodes of X to the nodes of W in nodes.
FanInEdges(nodes, X, W) ==
  {e \in NodeIDs(X, appShardCounts) \X NodeIDs(W, appShardCounts) :
     e[2] \in Range(nodes[e[1]].DependsOn)}

\* C6: a fan-in dependency never makes linking fail, whatever the two shard
\* counts N and M, and it links every shard of X to every shard of W once:
\* N*M edges.
C6_FanIn ==
  [][(pc = "built" /\ ~AmbiguousPairwise) =>
       /\ pc' = "linked"
       /\ \A X \in DOMAIN rawTopology.Apps :
            \A W \in Range(rawTopology.Apps[X].DependsOnAllOf) \ Range(rawTopology.Apps[X].DependsOn) :
              /\ Cardinality(FanInEdges(graph', X, W)) = appShardCounts[X] * appShardCounts[W]
              /\ \A x \in NodeIDs(X, appShardCounts) :
                   Len(Restrict(graph'[x].DependsOn, NodeIDs(W, appShardCounts))) = appShardCounts[W]]_vars

\* a (3 shards) fanned in on b (2 shards): six edges.
C6_Witness ==
  /\ pc = "linked"
  /\ appShardCounts[a] = 3 /\ appShardCounts[b] = 2
  /\ rawTopology.Apps[a].DependsOnAllOf = <<b>>
  /\ rawTopology.Apps[a].DependsOn = <<>>
  /\ Cardinality(FanInEdges(graph, a, b)) = 6

\* Two members of one co-location group declare different shard counts.
ConflictingDeclared ==
  \E r \in DOMAIN coLocationGroups :
    \E m1, m2 \in Range(coLocationGroups[r]) \cap DOMAIN rawTopology.Shards :
      rawTopology.Shards[m1] # rawTopology.Shards[m2]

\* C7: when two members of a co-location group declare different shard
\* counts, whatever the two integers, shard inference fails with a
\* conflicting-shard-counts error.
C7_ConflictRejected ==
  [][(pc = "grouped" /\ ConflictingDeclared) =>
       (pc' = "failed" /\ ret'.err.kind = "conflicting shard counts")]_vars

\* C8: the shard-count map has an entry for every app, and every member of a
\* co-location group gets the one value declared in the group, or 1 when no
\* member declares a value.
C8_Propagation ==
  pc = "counted" =>
    /\ DOMAIN appShardCounts = DOMAIN rawTopology.Apps
    /\ \A r \in DOMAIN coLocationGroups :
         LET members == Range(coLocationGroups[r])
             declared == {rawTopology.Shards[m] : m \in members \cap DOMAIN rawTopology.Shards}
         IN /\ \A m1, m2 \in members : appShardCounts[m1] = appShardCounts[m2]
            /\ declared = {} => \A m \in members : appShardCounts[m] = 1
            /\ \A v \in declared : declared = {v} => \A m \in members : appShardCounts[m] = v

\* C9: in an accepted document every app's shard count is at least 1, and a
\* declared count is the count used.
C9_PositiveCounts ==
  pc = "done" =>
    \A n \in DOMAIN rawTopology.Apps :
      /\ appShardCounts[n] >= 1
      /\ n \in DOMAIN rawTopology.Shards => appShardCounts[n] = rawTopology.Shards[n]

RECURSIVE SumOver(_, _)
SumOver(f, S) ==
  IF S = {} THEN 0
  ELSE LET x == CHOOSE y \in S : TRUE IN f[x] + SumOver(f, S \ {x})

\* C10: the returned graph has one node per (app, shard index): as many
\* nodes as the shard counts add up to, the node of (app, i) stored under
\* getNodeID(app, i, count) with BaseApp = app and Shard = i.
C10_OneNodePerShard ==
  pc = "done" =>
    /\ Cardinality(DOMAIN graph) = SumOver(appShardCounts, DOMAIN rawTopology.Apps)
    /\ \A n \in DOMAIN rawTopology.Apps : \A i \in 0..(appShardCounts[n] - 1) :
         LET id == getNodeID(n, i, appShardCounts[n])
         IN /\ id \in DOMAIN graph
            /\ graph[id].ID = id
            /\ graph[id].BaseApp = n
            /\ graph[id].Shard = i

\* C11: apps of one co-location group carry, shard by shard, the same
\* non-empty HostGroupID; the nodes of an app that is alone in its group
\* carry the empty HostGroupID, whatever its shard count.
C11_HostGroups ==
  pc = "done" =>
    \A r \in DOMAIN coLocationGroups :
      LET members == Range(coLocationGroups[r])
      IN \A m1, m2 \in members : \A i \in 0..(appShardCounts[m1] - 1) :
           LET n1 == graph[getNodeID(m1, i, appShardCounts[m1])]
               n2 == graph[getNodeID(m2, i, appShardCounts[m2])]
           IN IF Cardinality(members) > 1
                THEN n1.HostGroupID # <<>> /\ n1.HostGroupID = n2.HostGroupID
                ELSE n1.HostGroupID = <<>>

\* The apps connected to x by same_host_as entries read in either direction.
RECURSIVE HostReach(_, _)
HostReach(apps, S) ==
  LET T == S \cup {y \in DOMAIN apps :
                     \E x \in S : y \in Range(apps[x].SameHostAs) \/ x \in Range(apps[y].SameHostAs)}
  IN IF T = S THEN S ELSE HostReach(apps, T)

\* C12: the co-location groups are the connected components of same_host_as
\* over all app names: every app is in exactly one group, two apps share a
\* group iff they are connected, each group is keyed by its smallest member
\* and lists its members in sorted order without repetition, whatever the
\* order in which the relations were written.
C12_Components ==
  pc \in {"grouped", "counted", "built", "linked", "done"} =>
    /\ \A n \in DOMAIN rawTopology.Apps :
         \E r \in DOMAIN coLocationGroups :
           /\ Range(coLocationGroups[r]) = HostReach(rawTopology.Apps, {n})
           /\ \A r2 \in DOMAIN coLocationGroups : n \in Range(coLocationGroups[r2]) => r2 = r
    /\ \A r \in DOMAIN coLocationGroups :
         LET members == coLocationGroups[r]
         IN /\ members # <<>>
            /\ r = members[1]
            /\ Range(members) \subseteq DOMAIN rawTopology.Apps
            /\ \A i \in 1..(Len(members) - 1) : StrLess(members[i], members[i + 1])

\* A group of three whose smallest member lists no relation itself and
\* whose largest member was joined before the middle one.
C12_Witness ==
  /\ pc = "done"
  /\ \E r \in DOMAIN coLocationGroups :
       /\ Len(coLocationGroups[r]) = 3
       /\ rawTopology.Apps[r].SameHostAs = <<>>
       /\ rawTopology.Apps[coLocationGroups[r][3]].SameHostAs = <<r>>
       /\ rawTopology.Apps[coLocationGroups[r][2]].SameHostAs = <<coLocationGroups[r][3]>>

\* The seed set of a targeted restart: the nodes sharing the target's
\* non-empty HostGroupID, or the target alone.
SeedSet(nodes, t) ==
  IF nodes[t].HostGroupID # <<>>
    THEN {n \in DOMAIN nodes : nodes[n].HostGroupID = nodes[t].HostGroupID}
    ELSE {t}

\* C13: for a target that exists, GetSubgraphFor returns exactly the seed
\* set and everything reachable from it along dependency edges, each node
\* as it is in the graph, and no error.
C13_Subgraph ==
  (view.op = "subgraph" /\ view.target \in DOMAIN graph) =>
    /\ view.err = NoErr
    /\ DOMAIN view.nodes = Closure(graph, SeedSet(graph, view.target))
    /\ \A n \in DOMAIN view.nodes : view.nodes[n] = graph[n]

\* A restart whose target shares its host group with another node, pulls in
\* a dependency that is not in the seed set, and leaves some node out.
C13_Witness ==
  /\ view.op = "subgraph"
  /\ view.target \in DOMAIN graph
  /\ Cardinality(SeedSet(graph, view.target)) > 1
  /\ DOMAIN view.nodes # SeedSet(graph, view.target)
  /\ DOMAIN view.nodes # DOMAIN graph

\* The base apps that some concrete node of base app S depends on.
LogicalTargets(nodes, S) ==
  {nodes[m].BaseApp : m \in UNION {Range(nodes[n].DependsOn) : n \in {x \in DOMAIN nodes : nodes[x].BaseApp = S}}}

\* C14: the logical view has one node per base app of the graph; S depends
\* on T iff S # T and some node of S depends on some node of T; no edge is
\* listed twice and none leads from a node to itself.
C14_Logical ==
  view.op = "logical" =>
    /\ DOMAIN view.nodes = {graph[n].BaseApp : n \in DOMAIN graph}
    /\ \A S \in DOMAIN view.nodes :
         /\ view.nodes[S].ID = S
         /\ view.nodes[S].BaseApp = S
         /\ Range(view.nodes[S].DependsOn) = LogicalTargets(graph, S) \ {S}
         /\ Len(view.nodes[S].DependsOn) = Cardinality(Range(view.nodes[S].DependsOn))

\* A logical view in which two concrete edges collapse into one logical edge
\* and a base app with several nodes has a single logical node.
C14_Witness ==
  /\ view.op = "logical"
  /\ Cardinality(DOMAIN view.nodes) < Cardinality(DOMAIN graph)
  /\ \E n1, n2 \in DOMAIN graph :
       /\ n1 # n2
       /\ graph[n1].BaseApp = graph[n2].BaseApp
       /\ graph[n1].DependsOn # <<>>
       /\ graph[n2].DependsOn # <<>>
       /\ Len(view.nodes[graph[n1].BaseApp].DependsOn) = 1

\* ParseYAML on the document raw when every range over a map runs in sorted
\* key order: [nodes, err].
SortedParse(raw) ==
  LET bord == [n \in DOMAIN raw.Blueprints |-> SortStrings(DOMAIN raw.Blueprints[n].Apps)]
      e == expandBlueprints(raw, SortStrings(UsingApps(raw)), bord, bord)
      expanded == [raw EXCEPT !.Apps = e.apps]
      g == discoverCoLocationGroups(expanded)
      s == inferAndValidateShardCounts(expanded, g.groups, SortStrings(UnknownShardKeys(expanded)),
                                       SortStrings(DOMAIN g.groups))
      built == buildConcreteNodes(expanded, g.groups, s.counts, SortStrings(DOMAIN expanded.Apps))
      l == linkDependencies(built, expanded, s.counts, SortStrings(LinkingApps(expanded, s.counts)))
      cyc == detectCycle(l.nodes)
  IN IF e.err.kind # "none" THEN [nodes |-> EmptyMap, err |-> e.err]
     ELSE IF g.err.kind # "none" THEN [nodes |-> EmptyMap, err |-> g.err]
     ELSE IF s.err.kind # "none" THEN [nodes |-> EmptyMap, err |-> s.err]
     ELSE IF l.err.kind # "none" THEN [nodes |-> EmptyMap, err |-> l.err]
     ELSE IF cyc.hasCycle
       THEN [nodes |-> EmptyMap, err |-> Err("dependency cycle detected", <<JoinArrow(cyc.path)>>)]
     ELSE [nodes |-> sortedDeps(l.nodes), err |-> NoErr]

\* LogicalGraph when the nodes of every base app are visited in sorted order.
SortedLogical(nodes) ==
  LogicalGraph(nodes, [n \in baseApps(nodes) |->
                         logicalDeps(nodes, n, <<>>, SortStrings({k \in DOMAIN nodes : nodes[k].BaseApp = n}))])

\* C15: on an accepted document every compilation gives what the
\* compilation in sorted map order gives: the same node IDs with the same
\* BaseApp, Shard, HostGroupID and dependency set, the same startup layers,
\* and the same DOT text for the concrete graph and for the logical view.
C15_Deterministic ==
  pc = "done" =>
    LET ref == SortedParse(data)
    IN /\ ref.err = NoErr
       /\ DOMAIN graph = DOMAIN ref.nodes
       /\ \A n \in DOMAIN graph :
            /\ graph[n].ID = ref.nodes[n].ID
            /\ graph[n].BaseApp = ref.nodes[n].BaseApp
            /\ graph[n].Shard = ref.nodes[n].Shard
            /\ graph[n].HostGroupID = ref.nodes[n].HostGroupID
            /\ Range(graph[n].DependsOn) = Range(ref.nodes[n].DependsOn)
       /\ startup.set => startup.layers = GetStartupOrder(ref.nodes)
       /\ DOT(graph, TRUE) = DOT(ref.nodes, TRUE)
       /\ DOT(graph, FALSE) = DOT(ref.nodes, FALSE)
       /\ view.op = "logical" =>
            /\ DOT(view.nodes, TRUE) = DOT(SortedLogical(ref.nodes), TRUE)
            /\ DOT(view.nodes, FALSE) = DOT(SortedLogical(ref.nodes), FALSE)

\* C16: a rejected document is rejected with the same error by every
\* compilation: the error is the one the compilation in sorted map order
\* reports.
C16_SameError ==
  pc = "failed" => ret.err = SortedParse(data).err

\* The names an app's definition refers to.
Referenced(def) == Range(def.DependsOn) \cup Range(def.DependsOnAllOf) \cup Range(def.SameHostAs)

\* C20: a document in which some expanded app names, in DependsOn,
\* DependsOnAllOf or SameHostAs, an app that is not in the expanded table is
\* never accepted, whatever the shard counts.
C20_ReferencesChecked ==
  pc = "done" =>
    \A n \in DOMAIN rawTopology.Apps :
      Referenced(rawTopology.Apps[n]) \subseteq DOMAIN rawTopology.Apps

\* The instantiations of the input: <<parent, index into its uses list>>.
Instantiations(raw) == {pk \in (DOMAIN raw.Apps) \X (1..2) : pk[2] \in DOMAIN raw.Apps[pk[1]].Uses}

InstanceAt(raw, pk) == raw.Apps[pk[1]].Uses[pk[2]]

Synthesized(raw, pk) ==
  {JoinDash(pk[1], x) : x \in DOMAIN raw.Blueprints[InstanceAt(raw, pk).Blueprint].Apps}

\* The document breaks a blueprint rule: an undefined blueprint is used, a
\* placeholder of an instantiated blueprint app is not bound, an internal
\* dependency names no app of the blueprint, or a synthesized name is a
\* top-level app name or is synthesized by another instantiation too.
HygieneViolation(raw) ==
  \/ \E pk \in Instantiations(raw) : InstanceAt(raw, pk).Blueprint \notin DOMAIN raw.Blueprints
  \/ \E pk \in Instantiations(raw) :
       /\ InstanceAt(raw, pk).Blueprint \in DOMAIN raw.Blueprints
       /\ LET apps == raw.Blueprints[InstanceAt(raw, pk).Blueprint].Apps
          IN \/ \E x \in DOMAIN apps :
                  \/ ~(Range(apps[x].ExternalDependsOn) \subseteq DOMAIN InstanceAt(raw, pk).With)
                  \/ ~(Range(apps[x].ExternalDependsOnAllOf) \subseteq DOMAIN InstanceAt(raw, pk).With)
                  \/ ~(Range(apps[x].DependsOn) \subseteq DOMAIN apps)
             \/ Synthesized(raw, pk) \cap DOMAIN raw.Apps # {}
             \/ \E pk2 \in Instantiations(raw) :
                  /\ pk2 # pk
                  /\ InstanceAt(raw, pk2).Blueprint \in DOMAIN raw.Blueprints
                  /\ Synthesized(raw, pk) \cap Synthesized(raw, pk2) # {}

\* C18: a document that breaks a blueprint rule fails in expansion and no
\* graph is returned.
C18_Hygiene ==
  HygieneViolation(data) =>
    /\ pc \in {"decoded", "failed"}
    /\ ret.graph = "nil"
    /\ pc = "failed" => ret.err.kind \in {"undefined blueprint", "unresolved external dependency",
                                          "undefined internal dependency", "app name conflict"}

\* Rejected for a name conflict between two instantiations: every other
\* rule is kept and no top-level app has a synthesized name.
C18_Witness ==
  /\ pc = "failed"
  /\ ret.err.kind = "app name conflict"
  /\ ab \notin DOMAIN data.Apps
  /\ Cardinality(Instantiations(data)) = 2

\* C19: with the flag set on an instantiation of parent P, every shard i of
\* P depends in the compiled graph on shard i of every app synthesized from
\* it; when no instantiation of P sets the flag, P's dependency list in the
\* expanded table is its declared list.
C19_ParentDependsOnChildren ==
  /\ pc = "done" =>
       \A pk \in Instantiations(data) :
         InstanceAt(data, pk).DependsOn =>
           \A name \in Synthesized(data, pk) : \A i \in 0..(appShardCounts[pk[1]] - 1) :
             getNodeID(name, i, appShardCounts[name])
               \in Range(graph[getNodeID(pk[1], i, appShardCounts[pk[1]])].DependsOn)
  /\ pc \notin {"decoded", "failed"} =>
       \A P \in DOMAIN data.Apps :
         (\A k \in DOMAIN data.Apps[P].Uses : ~data.Apps[P].Uses[k].DependsOn) =>
           rawTopology.Apps[P].DependsOn = data.Apps[P].DependsOn

\* A compiled graph whose two-shard parent declared a dependency of its
\* own and set the flag on a blueprint of two apps.
C19_Witness ==
  /\ pc = "done"
  /\ \E pk \in Instantiations(data) :
       /\ InstanceAt(data, pk).DependsOn
       /\ Cardinality(Synthesized(data, pk)) = 2
       /\ appShardCounts[pk[1]] = 2
       /\ data.Apps[pk[1]].DependsOn # <<>>

\* The error kinds each stage of ParseYAML can return, by the position the
\* stage starts from.
StageErrors ==
  [decoded |-> {"undefined blueprint", "app name conflict", "unresolved external dependency",
                "undefined internal dependency"},
   expanded |-> {"same_host_as target does not exist"},
   grouped |-> {"conflicting shard counts", "shard count for non-existent app"},
   counted |-> {},
   built |-> {"depends_on target does not exist", "ambiguous depends_on",
              "depends_on_all_of target does not exist"},
   linked |-> {"dependency cycle detected"}]

StageAfter ==
  [decoded |-> "expanded", expanded |-> "grouped", grouped |-> "counted", counted |-> "built",
   built |-> "linked", linked |-> "done"]

C22_SelfCoLocationRejected ==
  (\E n \in DOMAIN data.Apps : n \in Range(data.Apps[n].SameHostAs)) =>
    /\ pc \in {"decoded", "expanded", "failed"}
    /\ ret.graph = "nil"

\* C23: a reported cycle path p starts and ends at the same node, each node
\* of p depends on the next one, and every node of p lies on a cycle.
C23_WellFormedPath ==
  (pc = "failed" /\ ret.err.kind = "dependency cycle detected") =>
    LET p == detectCycle(graph).path
    IN /\ ret.err.args = <<JoinArrow(p)>>
       /\ Len(p) >= 2
       /\ p[1] = p[Len(p)]
       /\ \A j \in 1..(Len(p) - 1) : p[j + 1] \in Range(graph[p[j]].DependsOn)
       /\ \A j \in 1..Len(p) :
            p[j] \in Closure(graph, Range(graph[p[j]].DependsOn))

\* C24: the startup layers of a compiled graph partition its nodes: every
\* node is in exactly one layer, no layer is empty, the first layer is the
\* set of nodes without dependencies, and each layer lists its IDs in
\* strictly ascending order; also when a dependency list repeats an entry.
C24_LayersPartition ==
  (pc = "done" /\ startup.set) =>
    LET layers == startup.layers
    IN /\ \A n \in DOMAIN graph : Cardinality(LayerIdx(layers, n)) = 1
       /\ \A i \in DOMAIN layers :
            /\ layers[i] # <<>>
            /\ Range(layers[i]) \subseteq DOMAIN graph
            /\ \A k \in 1..(Len(layers[i]) - 1) : StrLess(layers[i][k], layers[i][k + 1])
       /\ IF DOMAIN graph = {} THEN layers = <<>>
          ELSE Range(layers[1]) = {n \in DOMAIN graph : graph[n].DependsOn = <<>>}

\* A plan of at least two layers for a graph in which some node lists the
\* same dependency twice.
C24_Witness ==
  /\ pc = "done"
  /\ startup.set
  /\ Len(startup.layers) >= 2
  /\ \E n \in DOMAIN graph : Len(graph[n].DependsOn) > Cardinality(Range(graph[n].DependsOn))

\* The largest member of a non-empty set of numbers.
MaxOf(S) == CHOOSE x \in S : \A y \in S : y <= x

\* The length of the longest dependency chain below node n of an acyclic graph.
RECURSIVE ChainBelow(_, _)
ChainBelow(nodes, n) ==
  IF nodes[n].DependsOn = <<>> THEN 0
  ELSE 1 + MaxOf({ChainBelow(nodes, m) : m \in Range(nodes[n].DependsOn)})

\* C27: in the startup order of a compiled graph a node without
\* dependencies is in the first layer and every other node is one layer
\* after the latest of its dependencies: its layer index (from 0) is the
\* length of the longest dependency chain below it.
C27_EarliestLayer ==
  (pc = "done" /\ startup.set) =>
    \A n \in DOMAIN graph : LayerIdx(startup.layers, n) = {ChainBelow(graph, n) + 1}

\* A plan in which some node has two dependencies in different layers.
C27_Witness ==
  /\ pc = "done"
  /\ startup.set
  /\ \E n \in DOMAIN graph : \E m1, m2 \in Range(graph[n].DependsOn) :
       ChainBelow(graph, m1) < ChainBelow(graph, m2)

\* A node as LogicalGraph constructs it: only ID and BaseApp are set, and
\* its list names logical nodes.
IsNewLogicalNode(nodes, id, node) ==
  /\ node.ID = id
  /\ node.BaseApp = id
  /\ node.Shard = 0
  /\ node.HostGroupID = <<>>
  /\ Range(node.DependsOn) \subseteq baseApps(nodes)

C26_CoLocatedTogether ==
  (pc = "done" /\ view.op = "subgraph" /\ view.err = NoErr) =>
    \A n \in DOMAIN view.nodes :
      view.nodes[n].HostGroupID # <<>> =>
        \A m \in DOMAIN graph :
          graph[m].HostGroupID = view.nodes[n].HostGroupID => m \in DOMAIN view.nodes

\* Every key of the node map is the ID of its node, and every entry of
\* every dependency list is a node stored in the same map under its ID.
ReferentialIntegrity(nodes) ==
  \A k \in DOMAIN nodes :
    /\ nodes[k].ID = k
    /\ \A i \in 1..Len(nodes[k].DependsOn) :
         /\ nodes[k].DependsOn[i] \in DOMAIN nodes
         /\ nodes[nodes[k].DependsOn[i]].ID = nodes[k].DependsOn[i]

\* C28: referential integrity.  In the graph returned by a successful
\* compile, in every subgraph and in every logical view, each dependency
\* entry is a node of that same graph, stored under its own ID, and every
\* map key is the ID of the node it maps to.
C28_ReferentialIntegrity ==
  pc = "done" =>
    /\ ReferentialIntegrity(graph)
    /\ (view.op \in {"subgraph", "logical"} /\ view.err = NoErr) =>
         ReferentialIntegrity(view.nodes)

\* A subgraph that leaves part of the graph out and holds a chain of two
\* dependencies.
C28_Witness ==
  /\ pc = "done"
  /\ view.op = "subgraph"
  /\ view.err = NoErr
  /\ DOMAIN view.nodes # DOMAIN graph
  /\ \E n \in DOMAIN view.nodes : \E m \in Range(view.nodes[n].DependsOn) :
       view.nodes[m].DependsOn # <<>>

\* C29: the logical view of a compiled graph is acyclic, and the startup
\* order of the logical view places every base app in exactly one layer.
C29_LogicalAcyclic ==
  (pc = "done" /\ view.op = "logical") =>
    /\ ~HasCycle(view.nodes)
    /\ \A appName \in baseApps(graph) :
         Cardinality(LayerIdx(view.order, appName)) = 1

\* C30: a restart plan agrees with the full plan.  The startup order of
\* the subgraph of an existing target contains every node of the subgraph
\* exactly once, in the layer with the index the node has in the startup
\* order of the whole graph.
C30_RestartAgrees ==
  (pc = "done" /\ startup.set /\ view.op = "subgraph" /\ view.err = NoErr) =>
    \A n \in DOMAIN view.nodes :
      /\ Cardinality(LayerIdx(view.order, n)) = 1
      /\ LayerIdx(view.order, n) = LayerIdx(startup.layers, n)

\* A restart plan of two or more layers that leaves out a node of the first
\* layer of the full plan.
C30_Witness ==
  /\ pc = "done"
  /\ startup.set
  /\ view.op = "subgraph"
  /\ view.err = NoErr
  /\ Len(view.order) >= 2
  /\ \E m \in Range(startup.layers[1]) : m \notin DOMAIN view.nodes

====
